---- MODULE Spec2Model ----
(***************************************************************************)
(* gobrew: the version-directory state machine of src/gobrew.go.           *)
(*                                                                         *)
(* The program's state is the filesystem tree under $HOME/.gobrew.  Paths  *)
(* are sequences of path segments; a filesystem is a record of the         *)
(* directories, the regular files and the symbolic links that exist.       *)
(* Every handler (Install, Use, Uninstall) is a function from a process    *)
(* state (filesystem, trace of the filesystem calls issued so far, exit    *)
(* status) to a process state, written call by call as in the source.      *)
(* log.Fatal / log.Fatalf end the process (os.Exit), so nothing after them *)
(* runs.                                                                   *)
(***************************************************************************)
EXTENDS Integers, Sequences, FiniteSets, TLC

(* ------------------------------ bounds -------------------------------- *)

\* Number of distinct non-empty version strings the callers pass.
MaxVersions == 2

\* The version strings, in the order the bound admits them.  "go" is a
\* version string whose directory versions/go collides with the path
\* filepath.Join(versionsDir, "", "go").
VersionNames == <<"1.17", "1.18beta2", "go">>

Versions ==
  {VersionNames[i] : i \in 1..(IF MaxVersions < Len(VersionNames) THEN MaxVersions ELSE Len(VersionNames))}

\* Arguments a caller can pass: a version string or the empty string.
Args == Versions \cup {""}

(* ------------------------------- paths -------------------------------- *)

\* filepath.Join: joins the elements, dropping the empty ones.
filepathJoin(p, elems) == p \o SelectSeq(elems, LAMBDA s : s # "")

goBrewDir == ".gobrew"

\* NewGoBrew: the fields of the GoBrew instance.
homeDir == <<"home">>
installDir == filepathJoin(homeDir, <<goBrewDir>>)
versionsDir == filepathJoin(installDir, <<"versions">>)
currentDir == filepathJoin(installDir, <<"current">>)
currentBinDir == filepathJoin(installDir, <<"current", "bin">>)
currentGoDir == filepathJoin(installDir, <<"current", "go">>)
downloadsDir == filepathJoin(installDir, <<"downloads">>)

getArch == "linux-amd64"

getVersionDir(version) == filepathJoin(versionsDir, <<version>>)

\* The archive name built in downloadAndExtract.
tarName(version) == "go" \o version \o "." \o getArch \o ".tar.gz"

IsPrefix(p, q) == Len(p) <= Len(q) /\ SubSeq(q, 1, Len(p)) = p

Prefixes(p) == {SubSeq(p, 1, n) : n \in 1..Len(p)}

Parent(p) == SubSeq(p, 1, Len(p) - 1)

(* ------------------------ filesystem primitives ----------------------- *)

\* The four directories of the skeleton.
Skeleton(f) == {installDir, versionsDir, currentDir, downloadsDir} \subseteq f.dirs

\* One entry of the trace: the call, its path, whether it changed the
\* filesystem, whether it returned an error, and whether the skeleton existed
\* when it was issued.
Call(st, name, path, changed) ==
  [name |-> name, path |-> path, changed |-> changed, failed |-> FALSE,
   skeleton |-> Skeleton(st.fs)]

\* A call that returned an error and changed nothing.
FailedCall(st, name, path) ==
  [name |-> name, path |-> path, changed |-> FALSE, failed |-> TRUE,
   skeleton |-> Skeleton(st.fs)]

\* os.Stat(path) succeeding, for a path none of whose components is a link.
Exists(f, p) == p \in f.dirs \/ p \in f.files

\* os.MkdirAll: creates the directory and every missing parent; nil when the
\* directory exists.  When the system refuses to create directories
\* (st.failing) it returns an error and creates nothing.
MkdirAll(st, p) ==
  IF "MkdirAll" \in st.failing /\ ~(Prefixes(p) \subseteq st.fs.dirs)
    THEN [st EXCEPT !.calls = Append(@, FailedCall(st, "MkdirAll", p))]
    ELSE [st EXCEPT !.fs.dirs = @ \cup Prefixes(p),
                    !.calls = Append(@, Call(st, "MkdirAll", p, ~(Prefixes(p) \subseteq st.fs.dirs)))]

\* os.RemoveAll: removes the path and everything below it; a symbolic link
\* at the path is removed itself, never the tree it points to; a path that
\* does not exist is not an error.  When the system refuses deletions
\* (st.failing) it returns an error and removes nothing.
RemoveAll(st, p) ==
  LET f == st.fs
      keep(q) == ~IsPrefix(p, q)
      g == [dirs |-> {q \in f.dirs : keep(q)},
            files |-> {q \in f.files : keep(q)},
            links |-> [q \in {r \in DOMAIN f.links : keep(r)} |-> f.links[q]]]
  IN IF "RemoveAll" \in st.failing /\ g # f
       THEN [st EXCEPT !.calls = Append(@, FailedCall(st, "RemoveAll", p))]
       ELSE [st EXCEPT !.fs = g, !.calls = Append(@, Call(st, "RemoveAll", p, g # f))]

\* ln -snf target link, run after RemoveAll(link): creates the link when the
\* directory that holds it exists (the target need not exist), fails
\* otherwise or when the system refuses it.
LnOk(st, link, refused) == ~refused /\ Parent(link) \in st.fs.dirs

Ln(st, target, link, refused) ==
  IF LnOk(st, link, refused)
    THEN [st EXCEPT !.fs.links = (link :> target) @@ [q \in DOMAIN @ \ {link} |-> @[q]],
                    !.calls = Append(@, Call(st, "ln", link, TRUE))]
    ELSE [st EXCEPT !.calls = Append(@, FailedCall(st, "ln", link))]

\* filepath.EvalSymlinks(p): the real path, or an error when p is absent or
\* is a link whose target does not exist.
EvalSymlinks(f, p) ==
  IF p \in DOMAIN f.links
    THEN [err |-> ~Exists(f, f.links[p]), path |-> f.links[p]]
    ELSE [err |-> ~Exists(f, p), path |-> p]

\* log.Fatal / log.Fatalf: the process exits.
Fatal(st) == [st EXCEPT !.exit = "fatal"]

\* A handler returning normally, with the kind of its last log line.
Return(st, how) == [st EXCEPT !.exit = how]

\* utils.Download(url, dest): fetches the resource to disk ("ok") or fails
\* and leaves nothing at dest ("fail").
Download(st, dest, result) ==
  [st EXCEPT !.fs.files = IF result = "ok" THEN @ \cup {dest} ELSE @,
             !.calls = Append(@, Call(st, "Download", dest, result = "ok"))]

\* tar -xf archive -C dir: "ok" extracts the toolchain tree go/ with go/bin;
\* "partial" fails after creating go/; "fail" fails before writing anything.
Untar(st, archive, dir, result) ==
  [st EXCEPT !.fs.dirs = @ \cup (CASE result = "ok" -> {filepathJoin(dir, <<"go">>), filepathJoin(dir, <<"go", "bin">>)}
                                   [] result = "partial" -> {filepathJoin(dir, <<"go">>)}
                                   [] OTHER -> {}),
             !.calls = Append(@, Call(st, "tar", dir, result # "fail"))]

(* ------------------------------ helpers ------------------------------- *)

existsVersion(f, version) == Exists(f, filepathJoin(versionsDir, <<version, "go">>))

\* strings.ReplaceAll(s, old, ""), on path segments: every non-overlapping
\* occurrence of old, left to right, is removed.
RECURSIVE ReplaceAll(_, _)
ReplaceAll(s, old) ==
  IF Len(s) < Len(old) THEN s
  ELSE IF SubSeq(s, 1, Len(old)) = old
    THEN ReplaceAll(SubSeq(s, Len(old) + 1, Len(s)), old)
    ELSE <<Head(s)>> \o ReplaceAll(Tail(s), old)

\* strings.ReplaceAll(s, "/", ""): the segments run together.
RECURSIVE StripSlashes(_)
StripSlashes(s) == IF s = <<>> THEN "" ELSE Head(s) \o StripSlashes(Tail(s))

CurrentVersion(f) ==
  LET r == EvalSymlinks(f, currentBinDir)
  IN IF r.err THEN ""
     ELSE StripSlashes(ReplaceAll(ReplaceAll(r.path, <<"go", "bin">>), versionsDir))

\* cleanVersionDir that removes the whole versions/ directory.
cleanVersionsDir(st, version) == RemoveAll(st, versionsDir)

cleanVersionDir(st, version) == RemoveAll(st, getVersionDir(version))

\* cleanDownloadsDir that removes current/ instead of downloads/.
cleanCurrentDir(st) == RemoveAll(st, currentDir)

cleanDownloadsDir(st) == RemoveAll(st, downloadsDir)

mkdirs(st, version) ==
  MkdirAll(MkdirAll(MkdirAll(MkdirAll(MkdirAll(st, installDir), currentDir), versionsDir),
                    getVersionDir(version)), downloadsDir)

\* downloadAndExtract without the clean-up of the version directory.
downloadAndExtractNoCleanup(st, version, env) ==
  LET dest == filepathJoin(downloadsDir, <<tarName(version)>>)
      s1 == Download(st, dest, env.fetch)
      s2 == Untar(s1, dest, getVersionDir(version), env.untar)
  IN IF env.fetch # "ok" THEN Fatal(s1)
     ELSE IF env.untar # "ok" THEN Fatal(s2)
     ELSE s2

downloadAndExtract(st, version, env) ==
  LET dest == filepathJoin(downloadsDir, <<tarName(version)>>)
      s1 == Download(st, dest, env.fetch)
      s2 == Untar(s1, dest, getVersionDir(version), env.untar)
  IN IF env.fetch # "ok" THEN Fatal(cleanVersionDir(s1, version))
     ELSE IF env.untar # "ok" THEN Fatal(cleanVersionDir(s2, version))
     ELSE s2

\* changeSymblinkGoBin that goes on when ln fails.
changeSymblinkGoBinIgnoringError(st, version, refused) ==
  LET goBinDst == filepathJoin(versionsDir, <<version, "go", "bin">>)
      s1 == RemoveAll(st, currentBinDir)
  IN Ln(s1, goBinDst, currentBinDir, refused)

changeSymblinkGoBin(st, version, refused) ==
  LET goBinDst == filepathJoin(versionsDir, <<version, "go", "bin">>)
      s1 == RemoveAll(st, currentBinDir)
      s2 == Ln(s1, goBinDst, currentBinDir, refused)
  IN IF LnOk(s1, currentBinDir, refused) THEN s2 ELSE Fatal(s2)

\* changeSymblinkGo that removes the tree the old link resolves to.
changeSymblinkGoFollowingLink(st, version, refused) ==
  LET s1 == RemoveAll(RemoveAll(st, EvalSymlinks(st.fs, currentGoDir).path), currentGoDir)
      versionGoDir == filepathJoin(versionsDir, <<CurrentVersion(s1.fs), "go">>)
      s2 == Ln(s1, versionGoDir, currentGoDir, refused)
  IN IF LnOk(s1, currentGoDir, refused) THEN s2 ELSE Fatal(s2)

changeSymblinkGo(st, version, refused) ==
  LET s1 == RemoveAll(st, currentGoDir)
      versionGoDir == filepathJoin(versionsDir, <<CurrentVersion(s1.fs), "go">>)
      s2 == Ln(s1, versionGoDir, currentGoDir, refused)
  IN IF LnOk(s1, currentGoDir, refused) THEN s2 ELSE Fatal(s2)

(* ------------------------------ handlers ------------------------------ *)

\* Uninstall without the comparison against the current version.
UninstallNoCurrentGuard(st, version) ==
  IF version = "" THEN Fatal(st)
  ELSE IF existsVersion(st.fs, version) = FALSE THEN Fatal(st)
  ELSE Return(cleanVersionDir(st, version), "success")

\* Uninstall that deletes the version directory before it looks for it.
UninstallCleanFirst(st, version) ==
  IF version = "" THEN Fatal(st)
  ELSE IF CurrentVersion(st.fs) = version THEN Fatal(st)
  ELSE LET s1 == cleanVersionDir(st, version)
       IN IF existsVersion(s1.fs, version) = FALSE THEN Fatal(s1)
          ELSE Return(s1, "success")

Uninstall(st, version) ==
  IF version = "" THEN Fatal(st)
  ELSE IF CurrentVersion(st.fs) = version THEN Fatal(st)
  ELSE IF existsVersion(st.fs, version) = FALSE THEN Fatal(st)
  ELSE Return(cleanVersionDir(st, version), "success")

\* Install without the existsVersion test: it always fetches and extracts.
InstallAlways(st, version, env) ==
  IF version = "" THEN Fatal(st)
  ELSE LET s1 == mkdirs(st, version)
           s2 == downloadAndExtract(s1, version, env)
       IN IF s2.exit = "fatal" THEN s2
          ELSE Return(cleanDownloadsDir(s2), "success")

\* Install that creates the skeleton before it looks at its argument.
InstallMkdirsFirst(st, version, env) ==
  LET s1 == mkdirs(st, version)
      s2 == downloadAndExtract(s1, version, env)
  IN IF version = "" THEN Fatal(s1)
     ELSE IF existsVersion(s1.fs, version) = TRUE THEN Return(s1, "info")
     ELSE IF s2.exit = "fatal" THEN s2
     ELSE Return(cleanDownloadsDir(s2), "success")

Install(st, version, env) ==
  IF version = "" THEN Fatal(st)
  ELSE LET s1 == mkdirs(st, version)
           s2 == downloadAndExtract(s1, version, env)
       IN IF existsVersion(s1.fs, version) = TRUE THEN Return(s1, "info")
          ELSE IF s2.exit = "fatal" THEN s2
          ELSE Return(cleanDownloadsDir(s2), "success")

\* Use without the comparison against the current version.
UseNoGuard(st, version, env) ==
  LET s1 == changeSymblinkGoBin(st, version, env.lnBin)
      s2 == changeSymblinkGo(s1, version, env.lnGo)
  IN IF s1.exit = "fatal" THEN s1
     ELSE IF s2.exit = "fatal" THEN s2
     ELSE Return(s2, "success")

Use(st, version, env) ==
  IF CurrentVersion(st.fs) = version THEN Return(st, "info")
  ELSE LET s1 == changeSymblinkGoBin(st, version, env.lnBin)
           s2 == changeSymblinkGo(s1, version, env.lnGo)
       IN IF s1.exit = "fatal" THEN s1
          ELSE IF s2.exit = "fatal" THEN s2
          ELSE Return(s2, "success")

(* --------------------------- the state machine ------------------------ *)

VARIABLES
  fs,    \* the filesystem tree
  pre,   \* the filesystem when the last invocation started
  last,  \* the last invocation: handler, argument, exit, filesystem calls
  prev   \* the invocation before it: handler, argument, exit

vars == <<fs, pre, last, prev>>

\* A fresh root: only the home directory exists.
FreshRoot == [dirs |-> Prefixes(homeDir), files |-> {}, links |-> [q \in {} |-> <<>>]]

NoCall == [op |-> "none", version |-> "", exit |-> "none"]

Init ==
  /\ fs = FreshRoot
  /\ pre = FreshRoot
  /\ last = [op |-> "none", version |-> "", exit |-> "none", calls |-> <<>>]
  /\ prev = NoCall

\* A process starts on the current filesystem with an empty trace; failing
\* names the filesystem calls the system refuses during this process.
StartFailing(failing) == [fs |-> fs, calls |-> <<>>, exit |-> "running", failing |-> failing]

\* A process for which no directory creation or deletion is refused.
Start == StartFailing({})

\* One invocation ran to its end: record it.
Finish(op, version, st) ==
  /\ fs' = st.fs
  /\ pre' = fs
  /\ last' = [op |-> op, version |-> version, exit |-> st.exit, calls |-> st.calls]
  /\ prev' = [op |-> last.op, version |-> last.version, exit |-> last.exit]

\* What the network and tar can answer.
FetchResults == {"ok", "fail"}
UntarResults == {"ok", "partial", "fail"}

\* Neither ln is refused by the system.
NoRefusal == [lnBin |-> FALSE, lnGo |-> FALSE]

\* tar runs, and so answers, only after a fetch that succeeded.
InstallCall ==
  \E version \in Args, fetch \in FetchResults, untar \in UntarResults :
    /\ fetch = "fail" => untar = "fail"
    /\ Finish("Install", version, Install(Start, version, [fetch |-> fetch, untar |-> untar]))

UseCall ==
  \E version \in Args : Finish("Use", version, Use(Start, version, NoRefusal))

UninstallCall ==
  \E version \in Args : Finish("Uninstall", version, Uninstall(Start, version))

Next == InstallCall \/ UseCall \/ UninstallCall

Spec == Init /\ [][Next]_vars

(* ---------------- refused directory creations and deletions ----------- *)

\* The calls whose errors the handlers can meet.
Refusable == {"MkdirAll", "RemoveAll"}

\* What the network and tar answer is possible on the filesystem mkdirs left:
\* a download needs downloads/, an extraction needs the version directory.
Feasible(f, version, env) ==
  /\ env.fetch = "ok" => downloadsDir \in f.dirs
  /\ env.untar # "fail" => getVersionDir(version) \in f.dirs

\* Install while the system refuses directory creations or deletions.
InstallRefused ==
  \E version \in Versions, failing \in {{c} : c \in Refusable},
     fetch \in FetchResults, untar \in UntarResults :
    LET env == [fetch |-> fetch, untar |-> untar]
    IN /\ fetch = "fail" => untar = "fail"
       /\ Feasible(mkdirs(StartFailing(failing), version).fs, version, env)
       /\ Finish("Install", version, Install(StartFailing(failing), version, env))

\* Uninstall while the system refuses deletions.
UninstallRefused ==
  \E version \in Versions :
    Finish("Uninstall", version, Uninstall(StartFailing({"RemoveAll"}), version))

NextRefused == Next \/ InstallRefused \/ UninstallRefused

SpecRefused == Init /\ [][NextRefused]_vars

(* ------------------------------ refused ln --------------------------- *)

\* The system refuses one of the two ln commands (permission denied).
LnRefusals == {[lnBin |-> TRUE, lnGo |-> FALSE], [lnBin |-> FALSE, lnGo |-> TRUE]}

\* ln runs, and so can be refused, only in a Use that passes the guard.
UseLnRefused ==
  \E version \in Args, env \in LnRefusals :
    /\ CurrentVersion(fs) # version
    /\ Finish("Use", version, Use(Start, version, env))

NextLnRefused == Next \/ UseLnRefused

SpecLnRefused == Init /\ [][NextLnRefused]_vars

(* --------------------------- a killed Install ------------------------- *)

\* The process is killed from outside: nothing after this point runs.
Killed(st) == [st EXCEPT !.exit = "killed"]

\* Where an Install that found the version missing can be killed: once the
\* version directory is created, while the archive is being written, or while
\* tar has written a part of go/.
KillPoints == {"mkdirs", "fetch", "untar"}

InstallKilledAt(st, version, point) ==
  LET s1 == mkdirs(st, version)
      dest == filepathJoin(downloadsDir, <<tarName(version)>>)
      s2 == Download(s1, dest, "ok")
      s3 == Untar(s2, dest, getVersionDir(version), "partial")
  IN CASE point = "mkdirs" -> Killed(s1)
       [] point = "fetch" -> Killed(s2)
       [] point = "untar" -> Killed(s3)

InstallKilled ==
  \E version \in Versions, point \in KillPoints :
    /\ ~existsVersion(fs, version)
    /\ Finish("Install", version, InstallKilledAt(Start, version, point))

NextKilled == Next \/ InstallKilled

SpecKilled == Init /\ [][NextKilled]_vars

(* ------------------------- state descriptions ------------------------- *)

\* The link exists and its target exists.
Resolves(f, link) == link \in DOMAIN f.links /\ Exists(f, f.links[link])

\* current/bin resolves to versions/<v>/go/bin.
BinInto(f, v) ==
  Resolves(f, currentBinDir) /\ f.links[currentBinDir] = versionsDir \o <<v, "go", "bin">>

\* current/go resolves to versions/<v>/go.
GoInto(f, v) ==
  Resolves(f, currentGoDir) /\ f.links[currentGoDir] = versionsDir \o <<v, "go">>

\* The files below downloads/.
Artifacts(f) == {q \in f.files : IsPrefix(downloadsDir, q)}

\* The calls of the last invocation that changed the filesystem.
Mutations == {i \in 1..Len(last.calls) : last.calls[i].changed}

\* The calls of the last invocation that fetched or extracted.
NetworkOrExtraction == {i \in 1..Len(last.calls) : last.calls[i].name \in {"Download", "tar"}}

\* The last invocation returned normally.
Returned(c) == c.exit \in {"success", "info"}

(* ------------------------------- claims ------------------------------- *)

\* C1: in every state reached by completed Install, Use and Uninstall calls,
\* current/bin and current/go either both resolve into versions/<v>/go of one
\* and the same version v, or neither of them resolves.
C1_CurrentLinkInvariant ==
  \/ \E v \in Versions : BinInto(fs, v) /\ GoInto(fs, v)
  \/ ~Resolves(fs, currentBinDir) /\ ~Resolves(fs, currentGoDir)

\* C2: after a successful Install(X) followed by Use(X), CurrentVersion() is X,
\* current/bin resolves to versions/X/go/bin and current/go to versions/X/go.
C2_CurrentResolution ==
  (/\ prev.op = "Install" /\ Returned(prev)
   /\ last.op = "Use" /\ last.version = prev.version /\ Returned(last))
  => /\ CurrentVersion(fs) = last.version
     /\ BinInto(fs, last.version)
     /\ GoInto(fs, last.version)

\* Install(v) ran twice in succession, the first one succeeding.
InstalledTwice ==
  /\ prev.op = "Install" /\ Returned(prev)
  /\ last.op = "Install" /\ last.version = prev.version

\* C3 (as stated): Install(v) twice leaves exactly the on-disk state of
\* Install(v) once, downloads/ included, and the second call neither fetches
\* nor extracts.
C3_InstallTwiceSameState ==
  InstalledTwice => fs = pre /\ NetworkOrExtraction = {}

\* C3 (amended): Install(v) twice leaves the on-disk state of Install(v) once
\* except that downloads/, which the first call removed when it fetched, exists
\* again as an empty directory; the version trees, the files and both links are
\* the same, and the second call neither fetches nor extracts.
C3_InstallTwiceUpToDownloads ==
  InstalledTwice =>
    /\ last.exit = "info"
    /\ NetworkOrExtraction = {}
    /\ fs = [pre EXCEPT !.dirs = @ \cup {downloadsDir}]
    /\ prev.exit = "success" => downloadsDir \notin pre.dirs /\ Artifacts(fs) = {}
    /\ prev.exit = "info" => fs = pre

\* C3 witness: the first call fetched and extracted, the second found the
\* version installed.
C3_Witness ==
  /\ InstalledTwice /\ prev.exit = "success"
  /\ existsVersion(fs, last.version) /\ downloadsDir \in fs.dirs

\* C4: when the fetch or the extraction fails during Install(v) of a version
\* that was not installed, then after Install(v) has ended versionExists(v) is
\* false and no artifact remains under downloads/.
C4_Rollback ==
  (/\ last.op = "Install" /\ last.version # "" /\ last.exit = "fatal"
   /\ ~existsVersion(pre, last.version))
  => ~existsVersion(fs, last.version) /\ Artifacts(fs) = {}

\* C5: for a non-empty v, Uninstall(v) is fatal when v is the current version,
\* fatal when v is not installed, and otherwise succeeds and leaves
\* versionExists(v) false.
C5_RemovalGuards ==
  (last.op = "Uninstall" /\ last.version # "") =>
    /\ CurrentVersion(pre) = last.version => last.exit = "fatal"
    /\ ~existsVersion(pre, last.version) => last.exit = "fatal"
    /\ (CurrentVersion(pre) # last.version /\ existsVersion(pre, last.version))
         => last.exit = "success" /\ ~existsVersion(fs, last.version)

\* C5 witness: an installed version that is not the current one was removed
\* while another version was current.
C5_Witness ==
  /\ last.op = "Uninstall" /\ last.exit = "success"
  /\ existsVersion(pre, last.version) /\ ~existsVersion(fs, last.version)
  /\ CurrentVersion(pre) \in Versions

\* C6: a refused Uninstall (v is the current version, or v is not installed)
\* leaves the whole filesystem as it was before the call.
C6_RefusedUninstallMutatesNothing ==
  (last.op = "Uninstall" /\ last.version # "" /\ last.exit = "fatal")
  => fs = pre /\ Mutations = {}

\* C6 witness: Uninstall was refused for the current version, which is still
\* installed.
C6_Witness ==
  /\ last.op = "Uninstall" /\ last.exit = "fatal"
  /\ last.version \in Versions /\ CurrentVersion(pre) = last.version
  /\ existsVersion(fs, last.version)

\* C7: Use(version) called when CurrentVersion() = version reports success and
\* changes nothing: neither link is removed or recreated.
C7_NoOpSwitchGuard ==
  (last.op = "Use" /\ CurrentVersion(pre) = last.version)
  => Returned(last) /\ fs = pre /\ last.calls = <<>>

\* C7 witness: Use was called on the version that current/bin resolves into.
C7_Witness ==
  /\ last.op = "Use" /\ last.version \in Versions
  /\ CurrentVersion(pre) = last.version /\ BinInto(fs, last.version)

\* C8: when Use(v) is called twice in succession and the first call completes,
\* the second call does not mutate current/bin or current/go, whether v is
\* installed or not.
C8_RepeatedSwitch ==
  (/\ prev.op = "Use" /\ Returned(prev)
   /\ last.op = "Use" /\ last.version = prev.version)
  => \A i \in Mutations : last.calls[i].path \notin {currentBinDir, currentGoDir}

\* The calls of the last invocation, other than the skeleton step's MkdirAll,
\* that changed something at or below versions/ or current/.
VersionMutations ==
  {i \in Mutations : /\ last.calls[i].name # "MkdirAll"
                     /\ \/ IsPrefix(versionsDir, last.calls[i].path)
                        \/ IsPrefix(currentDir, last.calls[i].path)}

\* C9: when Install, Use or Uninstall performs its first mutation of versions/
\* or current/, the install root, versions/, current/ and downloads/ all exist.
C9_SkeletonInvariant ==
  \A i \in VersionMutations :
    (\A j \in VersionMutations : i <= j) => last.calls[i].skeleton

\* C10: Install("") and Uninstall("") end in a fatal error before any
\* filesystem call: no directory is created and nothing is deleted.
C10_EmptyVersion ==
  (last.op \in {"Install", "Uninstall"} /\ last.version = "")
  => last.exit = "fatal" /\ last.calls = <<>> /\ fs = pre

\* C10 witness: Install("") ended on a root where the skeleton does not exist.
C10_Witness ==
  /\ last.op = "Install" /\ last.version = "" /\ last.exit = "fatal"
  /\ installDir \notin fs.dirs

\* The calls of the last invocation that returned an error.
FailedCalls == {i \in 1..Len(last.calls) : last.calls[i].failed}

\* C11: when a directory creation fails during Install, or a recursive
\* deletion fails during Uninstall or during Install's rollback or downloads
\* cleanup, the operation ends in a fatal error and never reports success;
\* Uninstall(v) never reports success while versions/<v> still exists.
C11_PrimitiveFailuresAreFatal ==
  /\ (last.op \in {"Install", "Uninstall"} /\ FailedCalls # {}) => last.exit = "fatal"
  /\ (last.op = "Uninstall" /\ last.exit = "success")
       => getVersionDir(last.version) \notin fs.dirs

\* C12: a successful Uninstall(v) removes only versions/<v>: versionExists(w)
\* is unchanged for every other version w, and CurrentVersion() and the targets
\* of current/bin and current/go are the same as before the call.
C12_UninstallFrame ==
  (last.op = "Uninstall" /\ last.exit = "success") =>
    /\ \A w \in Versions \ {last.version} : existsVersion(fs, w) = existsVersion(pre, w)
    /\ CurrentVersion(fs) = CurrentVersion(pre)
    /\ fs.links = pre.links
    /\ fs.files = pre.files
    /\ fs.dirs = {q \in pre.dirs : ~IsPrefix(getVersionDir(last.version), q)}

\* C12 witness: a version was uninstalled while another installed version was
\* the current one, and that one is still installed and current.
C12_Witness ==
  /\ last.op = "Uninstall" /\ last.exit = "success"
  /\ CurrentVersion(fs) \in Versions \ {last.version}
  /\ existsVersion(fs, CurrentVersion(fs))
  /\ GoInto(fs, CurrentVersion(fs))

\* C13: no execution of Install or Uninstall (success, no-op, failed fetch,
\* failed extraction, refused removal) changes the existence or the stored
\* target of current/bin or current/go.
C13_LinksOnlyBySwitcher ==
  last.op \in {"Install", "Uninstall"} => fs.links = pre.links

\* C13 witness: an Install fetched, extracted and cleaned downloads/ while both
\* links existed.
C13_Witness ==
  /\ last.op = "Install" /\ last.exit = "success"
  /\ DOMAIN fs.links = {currentBinDir, currentGoDir}

\* C14: in every Use(version) that passes the no-op guard and completes,
\* current/go is linked to versions/<version>/go, the version current/bin was
\* just pointed at, for every argument (not installed and empty included).
C14_SwitchStepOrdering ==
  (last.op = "Use" /\ last.exit = "success") =>
    /\ fs.links[currentBinDir] = filepathJoin(versionsDir, <<last.version, "go", "bin">>)
    /\ fs.links[currentGoDir] = filepathJoin(versionsDir, <<last.version, "go">>)

\* ListVersions: the names ioutil.ReadDir(versionsDir) returns.
ListVersions(f) == {q[Len(q)] : q \in {r \in f.dirs \cup f.files : Parent(r) = versionsDir}}

\* C15: after calls that each ran to termination, every directory
\* versions/<v> that exists contains the extracted go subdirectory: the names
\* ListVersions lists are the versions with versionExists true.
C15_NoOrphanedVersionDirs ==
  /\ \A v \in ListVersions(fs) : existsVersion(fs, v)
  /\ \A v \in Versions : existsVersion(fs, v) => v \in ListVersions(fs)

\* C15 witness: an Install whose extraction failed half-way has rolled back
\* while another version is installed.
C15_Witness ==
  /\ last.op = "Install" /\ last.exit = "fatal"
  /\ \E i \in 1..Len(last.calls) : last.calls[i].name = "tar" /\ last.calls[i].changed
  /\ ListVersions(fs) # {}
  /\ last.version \notin ListVersions(fs)

\* C17: a successful Install(v) ends with versionExists(v) true and with
\* CurrentVersion() returning what it returned before the call.
C17_InstallDoesNotActivate ==
  (last.op = "Install" /\ Returned(last)) =>
    /\ existsVersion(fs, last.version)
    /\ CurrentVersion(fs) = CurrentVersion(pre)

\* C18: when CurrentVersion() returns a non-empty v, versionExists(v) is true,
\* and no operation deletes the directory of the version current/bin resolved
\* into when the operation started.
C18_ActiveVersionInstalled ==
  /\ CurrentVersion(fs) # "" =>
       CurrentVersion(fs) \in Versions /\ existsVersion(fs, CurrentVersion(fs))
  /\ CurrentVersion(pre) # "" => existsVersion(fs, CurrentVersion(pre))

\* C18 witness: Uninstall was called on the current version and the version
\* is still installed and current.
C18_Witness ==
  /\ last.op = "Uninstall" /\ last.version \in Versions
  /\ CurrentVersion(pre) = last.version
  /\ CurrentVersion(fs) = last.version /\ existsVersion(fs, last.version)

\* The ln of the last invocation on the given link failed.
LnFailed(link) ==
  \E i \in 1..Len(last.calls) :
    last.calls[i].name = "ln" /\ last.calls[i].path = link /\ last.calls[i].failed

\* C16: when creating current/bin fails, Use ends in a fatal error without
\* touching current/go; when creating current/go fails after current/bin was
\* repointed, Use ends in a fatal error, current/bin keeps its new target and
\* the previous current/go is not restored.
C16_HalfCompletedSwitch ==
  /\ (last.op = "Use" /\ LnFailed(currentBinDir)) =>
       /\ last.exit = "fatal"
       /\ \A i \in 1..Len(last.calls) : last.calls[i].path # currentGoDir
       /\ (currentGoDir \in DOMAIN fs.links) = (currentGoDir \in DOMAIN pre.links)
       /\ currentGoDir \in DOMAIN fs.links => fs.links[currentGoDir] = pre.links[currentGoDir]
  /\ (last.op = "Use" /\ LnFailed(currentGoDir)) =>
       /\ last.exit = "fatal"
       /\ currentBinDir \in DOMAIN fs.links
       /\ fs.links[currentBinDir] = filepathJoin(versionsDir, <<last.version, "go", "bin">>)
       /\ currentGoDir \notin DOMAIN fs.links

\* C16 witness: ln failed for current/go after current/bin was repointed from
\* another version, and the current/go of before the call is gone.
C16_Witness ==
  /\ last.op = "Use" /\ LnFailed(currentGoDir)
  /\ currentGoDir \in DOMAIN pre.links /\ currentGoDir \notin DOMAIN fs.links
  /\ currentBinDir \in DOMAIN pre.links
  /\ fs.links[currentBinDir] # pre.links[currentBinDir]

\* versions/<v>/go is there with its bin directory.
Extracted(f, v) ==
  /\ Exists(f, filepathJoin(versionsDir, <<v, "go">>))
  /\ Exists(f, filepathJoin(versionsDir, <<v, "go", "bin">>))

\* C19: after an Install(v) killed at any point, a following uninterrupted
\* Install(v) that returns normally ends with v completely extracted.
C19_RecoveryAfterKill ==
  (/\ prev.op = "Install" /\ prev.exit = "killed"
   /\ last.op = "Install" /\ last.version = prev.version /\ Returned(last))
  => Extracted(fs, last.version)

\* C20: no execution of Use creates or deletes anything under versions/ or
\* downloads/: removing the old links never removes the tree they point to,
\* so versionExists(w) is unchanged for every w.
C20_UseFrame ==
  last.op = "Use" =>
    /\ fs.dirs = pre.dirs
    /\ fs.files = pre.files
    /\ \A w \in Versions : existsVersion(fs, w) = existsVersion(pre, w)

\* C20 witness: Use switched away from an installed version; both old links
\* were removed and the version they pointed to is still installed.
C20_Witness ==
  /\ last.op = "Use" /\ last.exit = "success"
  /\ CurrentVersion(pre) \in Versions /\ GoInto(pre, CurrentVersion(pre))
  /\ CurrentVersion(pre) # last.version
  /\ Extracted(fs, CurrentVersion(pre))

====
